---- MODULE Spec2Model ----
(***************************************************************************)
(* Model of fintelia/cogbuilder (src/src/lib.rs): the CogBuilder container *)
(* store.  The container file is modelled byte by byte (sparsely: only the *)
(* non-zero bytes are stored), integers are encoded little-endian as the   *)
(* code does, and u32 quantities are kept as two 16-bit limbs <<hi, lo>>   *)
(* so that the full 32-bit range, including wrap-around, is representable. *)
(***************************************************************************)
EXTENDS Integers, Sequences, FiniteSets, TLC

VARIABLES
  width,            \* CogBuilder::new parameter `width`  (u32, limbs)
  height,           \* CogBuilder::new parameter `height` (u32, limbs)
  bpp,              \* CogBuilder::new parameter `bpp`    (Vec<u8>)
  signed,           \* CogBuilder::new parameter `signed`
  overflow_checks,  \* build profile: TRUE = overflow panics, FALSE = wraps
  pyr,              \* state of the pyramid loop of CogBuilder::new
  file,             \* the file at `path`: [len, nz]
  builder,          \* the CogBuilder instances opened on `path`
  wr,               \* write_tile call in flight, per instance
  rd,               \* read_tile call in flight (reader thread)
  last,             \* the last completed operation and what it returned
  hist              \* per slot: the last write operation completed on it

vars == <<width, height, bpp, signed, overflow_checks, pyr, file, builder,
          wr, rd, last, hist>>

----------------------------------------------------------------------------
(* Program constants *)

TILE_SIZE == 1024
NUM_TAGS == 12
OFFSETS_TAG_INDEX == 9
LENGTHS_TAG_INDEX == 10
LIMB == 2 ^ 16

(* Bounds of the model *)

MaxTilesAcross == 4
MaxLen == 2
MaxAppended == 2
MaxBeyond == 2

----------------------------------------------------------------------------
(* u32 arithmetic on limbs <<hi, lo>>, value = hi * 65536 + lo *)

U32(n) == <<n \div LIMB, n % LIMB>>

Val(x) == x[1] * LIMB + x[2]

\* x + c for a small constant c: the wrapped sum and whether it overflowed
AddU32(x, c) ==
  LET lo == x[2] + c
      hi == x[1] + (lo \div LIMB)
  IN  [overflow |-> hi >= LIMB, value |-> <<hi % LIMB, lo % LIMB>>]

\* x - 1: the wrapped difference and whether it underflowed
DecU32(x) ==
  IF x = <<0, 0>> THEN [overflow |-> TRUE, value |-> <<LIMB - 1, LIMB - 1>>]
  ELSE IF x[2] >= 1 THEN [overflow |-> FALSE, value |-> <<x[1], x[2] - 1>>]
  ELSE [overflow |-> FALSE, value |-> <<x[1] - 1, LIMB - 1>>]

\* x / d for d a power of two dividing 65536 (d >= 2)
DivU32(x, d) == U32(x[1] * (LIMB \div d) + (x[2] \div d))

LeU32(x, n) == x[1] = 0 /\ x[2] <= n

LtU32(x, y) == x[1] < y[1] \/ (x[1] = y[1] /\ x[2] < y[2])

\* u32::checked_mul for factors below 2^23: None on overflow
CheckedMul(x, y) ==
  LET a == Val(x)
      b == Val(y)
      a1 == a \div 2048
      a0 == a % 2048
      b1 == b \div 2048
      b0 == b % 2048
      p0 == a0 * b0
      p1 == a1 * b0 + a0 * b1
      p2 == a1 * b1
      mid == p1 + (p0 \div 2048)
      q == p2 + (mid \div 2048)                 \* product div 2^22
      r == (mid % 2048) * 2048 + (p0 % 2048)    \* product mod 2^22
  IN  IF q >= 1024 THEN [none |-> TRUE, value |-> <<0, 0>>]
      ELSE [none |-> FALSE, value |-> <<q * 64 + (r \div LIMB), r % LIMB>>]

----------------------------------------------------------------------------
(* Pyramid geometry: the loop of CogBuilder::new *)

\* (d + TILE_SIZE - 1) / TILE_SIZE as the code evaluates it, left to right
TilesAlong(d) ==
  LET s == AddU32(d, TILE_SIZE)
      t == DecU32(s.value)
  IN  [overflow |-> s.overflow \/ t.overflow, value |-> DivU32(t.value, TILE_SIZE)]

\* (d + 2) / 2 in place of (d + 1) / 2
HalveUp_RoundsPast(d) ==
  LET s == AddU32(d, 2)
  IN  [overflow |-> s.overflow, value |-> DivU32(s.value, 2)]

\* (d + 1) / 2
HalveUp(d) ==
  LET s == AddU32(d, 1)
  IN  [overflow |-> s.overflow, value |-> DivU32(s.value, 2)]

PyrStart(w, h) ==
  [pc |-> "loop", overview_width |-> w, overview_height |-> h,
   widths |-> <<>>, heights |-> <<>>, tile_counts |-> <<>>]

\* one iteration of the loop; checks = overflow panics are compiled in
LoopBody(p, checks) ==
  LET tiles_width == TilesAlong(p.overview_width)
      tiles_height == TilesAlong(p.overview_height)
      count == CheckedMul(tiles_width.value, tiles_height.value)
      pushed == [p EXCEPT !.widths = Append(@, p.overview_width),
                          !.heights = Append(@, p.overview_height)]
      nw == HalveUp(p.overview_width)
      nh == HalveUp(p.overview_height)
  IN  IF checks /\ (tiles_width.overflow \/ tiles_height.overflow)
        THEN [pushed EXCEPT !.pc = "panic"]
      ELSE IF count.none
        THEN [pushed EXCEPT !.pc = "panic"]
      ELSE LET counted == [pushed EXCEPT !.tile_counts = Append(@, count.value)]
           IN  IF LeU32(p.overview_width, TILE_SIZE) /\ LeU32(p.overview_height, TILE_SIZE)
                 THEN [counted EXCEPT !.pc = "done"]
               ELSE IF checks /\ (nw.overflow \/ nh.overflow)
                 THEN [counted EXCEPT !.pc = "panic"]
               ELSE [counted EXCEPT !.overview_width = nw.value,
                                    !.overview_height = nh.value]

RECURSIVE RunLoop(_, _)
RunLoop(p, checks) ==
  IF p.pc = "loop" THEN RunLoop(LoopBody(p, checks), checks) ELSE p

Pyramid(w, h, checks) == RunLoop(PyrStart(w, h), checks)

----------------------------------------------------------------------------
(* The file: len bytes, of which nz holds the non-zero ones by position *)

Max(a, b) == IF a >= b THEN a ELSE b

SeqSum(s) ==
  LET RECURSIVE Go(_)
      Go(k) == IF k = 0 THEN 0 ELSE s[k] + Go(k - 1)
  IN  Go(Len(s))

Zeros(n) == [k \in 1..n |-> 0]

EmptyFile == [len |-> 0, nz |-> [p \in {} |-> 0]]

ByteAt(f, p) == IF p \in DOMAIN f.nz THEN f.nz[p] ELSE 0

\* seek(Start(pos)) + read_exact of n bytes: fails when the file is too short
ReadExact(f, pos, n) ==
  IF pos + n > f.len THEN [ok |-> FALSE, bytes |-> <<>>]
  ELSE [ok |-> TRUE, bytes |-> [k \in 1..n |-> ByteAt(f, pos + k - 1)]]

\* write_all of bs with the handle's cursor at pos
WriteAll(f, pos, bs) ==
  LET n == Len(bs)
      put == {pos + k - 1 : k \in {j \in 1..n : bs[j] # 0}}
      cleared == {pos + k - 1 : k \in {j \in 1..n : bs[j] = 0}} \cap DOMAIN f.nz
      written == [p \in put |-> bs[p - pos + 1]]
  IN  [len |-> IF n = 0 THEN f.len ELSE Max(f.len, pos + n),
       nz |-> IF cleared = {} THEN written @@ f.nz
              ELSE written @@ [p \in (DOMAIN f.nz) \ cleared |-> f.nz[p]]]

\* write_all of a whole buffer d (kept like a file) with the cursor at pos
WriteBuf(f, pos, d) ==
  [len |-> IF d.len = 0 THEN f.len ELSE Max(f.len, pos + d.len),
   nz |-> [p \in {pos + q : q \in DOMAIN d.nz} |-> d.nz[p - pos]]
          @@ [p \in {q \in DOMAIN f.nz : q < pos \/ q >= pos + d.len} |-> f.nz[p]]]

\* u64::to_le_bytes / u16, u64::from_le_bytes
RECURSIVE ToLeBytes(_, _)
ToLeBytes(v, n) == IF n = 0 THEN <<>> ELSE <<v % 256>> \o ToLeBytes(v \div 256, n - 1)

RECURSIVE FromLeBytes(_)
FromLeBytes(bs) == IF bs = <<>> THEN 0 ELSE bs[1] + 256 * FromLeBytes(Tail(bs))

\* (x as u64).to_le_bytes() for a u32 kept as limbs
U32ToLeBytes8(x) == ToLeBytes(x[2], 2) \o ToLeBytes(x[1], 2) \o Zeros(4)

----------------------------------------------------------------------------
(* Offset/size table: CogBuilder::offset_size_locations *)

TileCount(b, level) == Val(b.tile_counts[level + 1])

Levels(b) == Len(b.tile_counts)

\* the inline fields taken at tag indices 8 and 9 (the 11-tag layout)
offset_size_locations_ElevenTags(b, level, tile_index) ==
  IF TileCount(b, level) > 1 THEN
    LET offset_location ==
          Levels(b) * 1024
          + SeqSum([k \in 1..level |-> Val(b.tile_counts[k])]) * 16
          + tile_index * 8
    IN  [panic |-> FALSE, offset |-> offset_location,
         size |-> offset_location + TileCount(b, level) * 8]
  ELSE IF level = 0 THEN
    [panic |-> tile_index # 0,
     offset |-> 16 + 8 + (OFFSETS_TAG_INDEX - 1) * 20 + 12,
     size |-> 16 + 8 + (LENGTHS_TAG_INDEX - 1) * 20 + 12]
  ELSE
    [panic |-> tile_index # 0,
     offset |-> 1024 * level + 8 + (OFFSETS_TAG_INDEX - 1) * 20 + 12,
     size |-> 1024 * level + 8 + (LENGTHS_TAG_INDEX - 1) * 20 + 12]

offset_size_locations(b, level, tile_index) ==
  IF TileCount(b, level) > 1 THEN
    LET offset_location ==
          Levels(b) * 1024
          + SeqSum([k \in 1..level |-> Val(b.tile_counts[k])]) * 16
          + tile_index * 8
    IN  [panic |-> FALSE, offset |-> offset_location,
         size |-> offset_location + TileCount(b, level) * 8]
  ELSE IF level = 0 THEN
    [panic |-> tile_index # 0,
     offset |-> 16 + 8 + OFFSETS_TAG_INDEX * 20 + 12,
     size |-> 16 + 8 + LENGTHS_TAG_INDEX * 20 + 12]
  ELSE
    [panic |-> tile_index # 0,
     offset |-> 1024 * level + 8 + OFFSETS_TAG_INDEX * 20 + 12,
     size |-> 1024 * level + 8 + LENGTHS_TAG_INDEX * 20 + 12]

----------------------------------------------------------------------------
(* Directory encoder: the body of the `for level` loop of CogBuilder::new *)

\* one level's directory record; indexes_offset is the running table address
EncodeIfd(level, widths, heights, tile_counts, b, s, indexes_offset, single) ==
  LET count == tile_counts[level + 1]
  IN  ToLeBytes(NUM_TAGS, 8)
      \o <<254, 0, 4, 0, 1, 0, 0, 0, 0, 0, 0, 0>>
      \o (IF level = 0 THEN Zeros(8) ELSE <<1, 0, 0, 0, 0, 0, 0, 0>>)
      \o <<0, 1, 4, 0, 1, 0, 0, 0, 0, 0, 0, 0>> \o U32ToLeBytes8(widths[level + 1])
      \o <<1, 1, 4, 0, 1, 0, 0, 0, 0, 0, 0, 0>> \o U32ToLeBytes8(heights[level + 1])
      \o <<2, 1, 1, 0, Len(b), 0, 0, 0, 0, 0, 0, 0>> \o b \o Zeros(8 - Len(b))
      \o <<3, 1, 4, 0, 1, 0, 0, 0, 0, 0, 0, 0>> \o ToLeBytes(5, 8)
      \o <<6, 1, 4, 0, 1, 0, 0, 0, 0, 0, 0, 0>>
      \o (IF Len(b) = 3 THEN ToLeBytes(2, 8) ELSE ToLeBytes(1, 8))
      \o <<21, 1, 4, 0, 1, 0, 0, 0, 0, 0, 0, 0>> \o ToLeBytes(Len(b), 8)
      \o <<66, 1, 4, 0, 1, 0, 0, 0, 0, 0, 0, 0>> \o ToLeBytes(TILE_SIZE, 8)
      \o <<67, 1, 4, 0, 1, 0, 0, 0, 0, 0, 0, 0>> \o ToLeBytes(TILE_SIZE, 8)
      \o <<68, 1, 16, 0>> \o U32ToLeBytes8(count)
      \o (IF Val(count) > 1 THEN ToLeBytes(indexes_offset, 8)
                            ELSE ToLeBytes(single[1], 8))
      \o <<69, 1, 16, 0>> \o U32ToLeBytes8(count)
      \o (IF Val(count) > 1 THEN ToLeBytes(indexes_offset + Val(count) * 8, 8)
                            ELSE ToLeBytes(single[2], 8))
      \o <<83, 1, 3, 0, 1, 0, 0, 0, 0, 0, 0, 0>>
      \o (IF s THEN ToLeBytes(2, 8) ELSE ToLeBytes(1, 8))
      \o (IF level < Len(tile_counts) - 1 THEN ToLeBytes((level + 1) * 1024, 8)
                                          ELSE Zeros(8))

\* `data`: the 16-byte header and every level's record padded to 1024 bytes;
\* the buffer is kept like the file (length and non-zero bytes), so that
\* extend_from_slice is a write at its end and zero padding only adds length
RECURSIVE EncodeData(_, _, _, _, _, _, _, _, _)
EncodeData(level, data, indexes_offset, widths, heights, tile_counts, b, s, single) ==
  IF level >= Len(tile_counts) THEN data
  ELSE LET ifd == EncodeIfd(level, widths, heights, tile_counts, b, s,
                            indexes_offset, single)
           with_ifd == WriteAll(data, data.len, ifd)
           padded == [with_ifd EXCEPT !.len = @ + (1024 - (@ % 1024))]
       IN  EncodeData(level + 1, padded,
                      indexes_offset + Val(tile_counts[level + 1]) * 16,
                      widths, heights, tile_counts, b, s, single)

Header == <<73, 73, 43, 0, 8, 0, 0, 0, 16, 0, 0, 0, 0, 0, 0, 0>>

----------------------------------------------------------------------------
(* Resumption parser: the tag scan of CogBuilder::new over the old records *)

\* both inline fields starting at 0 in place of (1, 0)
InitialSingle_Zero == <<0, 0>>

InitialSingle == <<1, 0>>

\* scan of the tags of level i in ifd_buffers, the first buflen bytes of the
\* file f as read before anything is written; out-of-bounds slicing panics
RECURSIVE ScanTags(_, _, _, _, _, _, _)
ScanTags(f, buflen, ifd_offset, tag, num_tags, one_tile, single) ==
  IF tag >= num_tags THEN [panic |-> FALSE, single |-> single]
  ELSE IF ifd_offset + 8 + 20 * tag + 20 > buflen
    THEN [panic |-> TRUE, single |-> single]
  ELSE
    LET at == ifd_offset + 8 + 20 * tag
        kind == FromLeBytes(ReadExact(f, at, 2).bytes)
        value == FromLeBytes(ReadExact(f, at + 12, 8).bytes)
        next == IF kind = 324 /\ one_tile THEN <<value, single[2]>>
                ELSE IF kind = 325 /\ one_tile THEN <<single[1], value>>
                ELSE single
    IN  ScanTags(f, buflen, ifd_offset, tag + 1, num_tags, one_tile, next)

RECURSIVE ScanLevels(_, _, _, _, _, _)
ScanLevels(f, buflen, i, ifd_offset, tile_counts, single) ==
  IF i >= Len(tile_counts) THEN [panic |-> FALSE, single |-> single]
  ELSE
    LET num_tags == FromLeBytes(ReadExact(f, ifd_offset, 8).bytes)
        r == ScanTags(f, buflen, ifd_offset, 0, num_tags,
                      Val(tile_counts[i + 1]) = 1, single)
    IN  IF r.panic THEN r
        ELSE ScanLevels(f, buflen, i + 1, 1024 * (i + 1), tile_counts, r.single)

\* the old records are never scanned
RecoverSingle_Forgets(f, tile_counts) == [panic |-> FALSE, single |-> InitialSingle]

\* single_offset_size as it stands before the new records are encoded
RecoverSingle(f, tile_counts) ==
  IF f.len >= 1024 * Len(tile_counts)
    THEN ScanLevels(f, 1024 * Len(tile_counts), 0, 16, tile_counts, InitialSingle)
    ELSE [panic |-> FALSE, single |-> InitialSingle]

----------------------------------------------------------------------------
(* CogBuilder::new *)

\* the initial offset/size tables: per level, tiles x 1u64 then tiles x 0u64
\* (cast to bytes in native order, little-endian on the supported targets)
RECURSIVE TableInit(_, _)
TableInit(tile_counts, k) ==
  IF k > Len(tile_counts) THEN <<>>
  ELSE LET tiles == Val(tile_counts[k])
           RECURSIVE Rep(_, _)
           Rep(v, n) == IF n = 0 THEN <<>> ELSE ToLeBytes(v, 8) \o Rep(v, n - 1)
       IN  Rep(1, tiles) \o Rep(0, tiles) \o TableInit(tile_counts, k + 1)

Closed == [open |-> FALSE, widths |-> <<>>, heights |-> <<>>,
           tile_counts |-> <<>>, file_size |-> 0]

\* the whole constructor on a file f: the file it leaves and what it returns
New_(f, w, h, b, s, checks) ==
  LET original_file_size == f.len
      p == Pyramid(w, h, checks)
      tile_counts == p.tile_counts
      total_tiles == SeqSum([k \in 1..Len(tile_counts) |-> Val(tile_counts[k])])
      new_file_size == Max(1024 * Len(tile_counts) + 16 * total_tiles,
                           original_file_size)
      rec == RecoverSingle(f, tile_counts)
      data == EncodeData(0, WriteAll(EmptyFile, 0, Header), Len(tile_counts) * 1024,
                         p.widths, p.heights, tile_counts, b, s, rec.single)
      f1 == WriteBuf(f, 0, data)
      buf == TableInit(tile_counts, 1)
      skip == IF original_file_size > data.len
                THEN original_file_size - data.len ELSE 0
      f2 == IF original_file_size < new_file_size
              THEN WriteAll(f1, Max(original_file_size, data.len),
                            SubSeq(buf, skip + 1, Len(buf)))
              ELSE f1
  IN  IF p.pc = "panic" \/ rec.panic \/ Len(b) = 0 \/ Len(b) > 8
        THEN [panic |-> TRUE, file |-> f, builder |-> Closed]
        ELSE [panic |-> FALSE, file |-> f2,
              builder |-> [open |-> TRUE, widths |-> p.widths,
                           heights |-> p.heights, tile_counts |-> tile_counts,
                           file_size |-> new_file_size]]

----------------------------------------------------------------------------
(* Queries: CogBuilder::valid_mask and CogBuilder::read_tile *)

None == [err |-> FALSE, some |-> FALSE, bytes |-> <<>>]
Some(bs) == [err |-> FALSE, some |-> TRUE, bytes |-> bs]
IoErr == [err |-> TRUE, some |-> FALSE, bytes |-> <<>>]

\* the u64 stored at pos (0 when the file is too short to hold it)
U64At(f, pos) == FromLeBytes(ReadExact(f, pos, 8).bytes)

\* offset != 0 in place of offset != 1
valid_mask_ZeroSentinel(f, b, level) ==
  LET start == offset_size_locations(b, level, 0).offset
      n == TileCount(b, level)
  IN  IF start + 8 * n > f.len THEN [err |-> TRUE, mask |-> <<>>]
      ELSE [err |-> FALSE, mask |-> [i \in 1..n |-> U64At(f, start + 8 * (i - 1)) # 0]]

valid_mask(f, b, level) ==
  LET start == offset_size_locations(b, level, 0).offset
      n == TileCount(b, level)
  IN  IF start + 8 * n > f.len THEN [err |-> TRUE, mask |-> <<>>]
      ELSE [err |-> FALSE, mask |-> [i \in 1..n |-> U64At(f, start + 8 * (i - 1)) # 1]]

\* the last step of read_tile, given the size and offset it has read
ReadPayload(f, size, offset) ==
  LET r == ReadExact(f, offset, size)
  IN  IF r.ok THEN Some(r.bytes) ELSE IoErr

\* index > tile count in place of index >= tile count
read_tile_RangeOffByOne(f, b, level, index) ==
  IF index > TileCount(b, level) THEN None
  ELSE LET loc == offset_size_locations(b, level, index)
           size == ReadExact(f, loc.size, 8)
           offset == ReadExact(f, loc.offset, 8)
       IN  IF loc.panic \/ ~size.ok \/ ~offset.ok THEN IoErr
           ELSE IF FromLeBytes(size.bytes) = 0 THEN None
           ELSE ReadPayload(f, FromLeBytes(size.bytes), FromLeBytes(offset.bytes))

read_tile(f, b, level, index) ==
  IF index >= TileCount(b, level) THEN None
  ELSE LET loc == offset_size_locations(b, level, index)
           size == ReadExact(f, loc.size, 8)
           offset == ReadExact(f, loc.offset, 8)
       IN  IF loc.panic \/ ~size.ok \/ ~offset.ok THEN IoErr
           ELSE IF FromLeBytes(size.bytes) = 0 THEN None
           ELSE ReadPayload(f, FromLeBytes(size.bytes), FromLeBytes(offset.bytes))

----------------------------------------------------------------------------
(* Updates: the three file writes of write_tile, and write_nodata_tile *)

AppendPayload(f, file_end, tile) == WriteAll(f, file_end, tile)

\* the offset field written at this point in place of the size field
WriteSizeField_OffsetFirst(f, b, level, index, tile) ==
  WriteAll(f, offset_size_locations(b, level, index).offset,
           ToLeBytes(f.len - Len(tile), 8))

WriteSizeField(f, b, level, index, tile) ==
  WriteAll(f, offset_size_locations(b, level, index).size, ToLeBytes(Len(tile), 8))

WriteOffsetField(f, b, level, index, file_end) ==
  WriteAll(f, offset_size_locations(b, level, index).offset, ToLeBytes(file_end, 8))

\* file_size left as it was in place of file_size += tile.len()
write_tile_NoAdvance(f, b, level, index, tile) ==
  LET file_end == f.len
  IN  IF b.file_size # file_end \/ offset_size_locations(b, level, index).panic
        THEN [panic |-> TRUE, file |-> f, builder |-> b]
        ELSE [panic |-> FALSE,
              file |-> WriteOffsetField(
                         WriteSizeField(AppendPayload(f, file_end, tile),
                                        b, level, index, tile),
                         b, level, index, file_end),
              builder |-> b]

write_tile(f, b, level, index, tile) ==
  LET file_end == f.len
  IN  IF b.file_size # file_end \/ offset_size_locations(b, level, index).panic
        THEN [panic |-> TRUE, file |-> f, builder |-> b]
        ELSE [panic |-> FALSE,
              file |-> WriteOffsetField(
                         WriteSizeField(AppendPayload(f, file_end, tile),
                                        b, level, index, tile),
                         b, level, index, file_end),
              builder |-> [b EXCEPT !.file_size = @ + Len(tile)]]

write_nodata_tile(f, b, level, index) ==
  WriteAll(f, offset_size_locations(b, level, index).offset, ToLeBytes(0, 8))

----------------------------------------------------------------------------
(* Inputs *)

Instances == {1, 2}

\* tile payloads: the prefixes of one byte string up to MaxLen bytes (the
\* empty one included) and a second one-byte payload
Payloads == {SubSeq(<<201, 9, 44, 130>>, 1, n) : n \in 0..MaxLen} \cup {<<7>>}

\* tile payloads of the calls that are followed step by step
StepPayloads == {t \in Payloads : Len(t) \in {1, MaxLen}}

\* constructor arguments for the store: one level of one tile (inline slot);
\* two levels of 2 tiles (external table) and 1 tile (inline slot)
StoreInputs ==
  {[width |-> U32(1000), height |-> U32(600), bpp |-> <<8>>, signed |-> FALSE],
   [width |-> U32(2048), height |-> U32(1024), bpp |-> <<16, 16, 16>>, signed |-> TRUE]}

\* widths and heights for the pyramid: around every multiple of TILE_SIZE up
\* to MaxTilesAcross tiles, the smallest ones, and the top of the u32 range
PyrDims ==
  {U32(n) : n \in ({k * TILE_SIZE + d : k \in 0..MaxTilesAcross, d \in {-1, 0, 1}}
                   \cup {1, 2, 3}) \cap Nat}
  \cup {<<LIMB \div 2 - 1, LIMB - 1>>, <<LIMB \div 2, 0>>,
        <<LIMB - 1, LIMB - TILE_SIZE - 1>>, <<LIMB - 1, LIMB - TILE_SIZE>>,
        <<LIMB - 1, LIMB - 2>>, <<LIMB - 1, LIMB - 1>>}

\* widths and heights for the encoder: every whole number of tiles up to
\* MaxTilesAcross, one pixel more than each, one pixel, and u32::MAX
EncDims ==
  {U32(n) : n \in ({k * TILE_SIZE + d : k \in 0..(MaxTilesAcross - 1), d \in {0, 1}}
                   \cup {MaxTilesAcross * TILE_SIZE}) \ {0}}
  \cup {<<LIMB - 1, LIMB - 1>>}

\* sample layouts for the encoder
EncSamples == {[bpp |-> <<8>>, signed |-> FALSE], [bpp |-> <<16, 16, 16>>, signed |-> TRUE]}

Slots(b) ==
  UNION {{<<l, i>> : i \in 0..(TileCount(b, l) - 1)} : l \in 0..(Levels(b) - 1)}

\* size of the header, directory and table region for geometry b
RegionSize(b) ==
  1024 * Levels(b) + 16 * SeqSum([k \in 1..Levels(b) |-> Val(b.tile_counts[k])])

----------------------------------------------------------------------------
(* State machine *)

PyrIdle == [pc |-> "idle", overview_width |-> <<0, 0>>, overview_height |-> <<0, 0>>,
            widths |-> <<>>, heights |-> <<>>, tile_counts |-> <<>>]

WrIdle == [pc |-> "idle", at |-> "idle", level |-> 0, index |-> 0, tile |-> <<>>,
           file_end |-> 0, before |-> None]

RdIdle == [pc |-> "idle", level |-> 0, index |-> 0, size |-> 0, offset |-> 0,
           allowed |-> {}]

NoOp == [op |-> "none", inst |-> 0, level |-> 0, index |-> 0, data |-> <<>>,
         result |-> "none", fresh |-> FALSE, allowed |-> {}]

InitStore ==
  /\ \E a \in StoreInputs :
       width = a.width /\ height = a.height /\ bpp = a.bpp /\ signed = a.signed
  /\ overflow_checks = FALSE
  /\ pyr = PyrIdle
  /\ file = EmptyFile
  /\ builder = [s \in Instances |-> Closed]
  /\ wr = [s \in Instances |-> WrIdle]
  /\ rd = RdIdle
  /\ last = NoOp
  /\ hist = <<>>

\* CogBuilder::new(path, width, height, bpp, signed, _) giving instance s, on
\* whatever the file holds: creation when it is empty, reopening otherwise
New(s) ==
  /\ ~builder[s].open
  /\ wr[s].pc \in {"idle", "crashed"}
  /\ \E r \in {New_(file, width, height, bpp, signed, overflow_checks)} :
         /\ ~r.panic
         /\ file' = r.file
         /\ builder' = [builder EXCEPT ![s] = r.builder]
         /\ hist' = IF hist = <<>>
                      THEN [sl \in Slots(r.builder) |-> [op |-> "none", data |-> <<>>]]
                      ELSE hist
         /\ last' = [NoOp EXCEPT !.op = "new", !.inst = s,
                                 !.fresh = (file.len = 0),
                                 !.result = IF file.len = 0 THEN "created"
                                            ELSE "reopened"]
  /\ wr' = [wr EXCEPT ![s] = IF @.pc = "crashed" THEN [@ EXCEPT !.pc = "recovered"]
                             ELSE @]
  /\ UNCHANGED <<width, height, bpp, signed, overflow_checks, pyr, rd>>

\* instance s goes out of scope with no call in flight (its handles close)
Drop(s) ==
  /\ builder[s].open
  /\ wr[s].pc \in {"idle", "recovered"}
  /\ rd.pc = "idle"
  /\ builder' = [builder EXCEPT ![s] = Closed]
  /\ last' = [NoOp EXCEPT !.op = "drop", !.inst = s]
  /\ UNCHANGED <<width, height, bpp, signed, overflow_checks, pyr, file, wr, rd, hist>>

\* write_tile(level, index, tile) by instance s, run to completion
WriteTile(s, level, index, tile) ==
  /\ builder[s].open
  /\ wr[s].pc \in {"idle", "recovered"}
  /\ <<level, index>> \in Slots(builder[s])
  /\ file.len + Len(tile) <= RegionSize(builder[s]) + MaxAppended
  /\ \E r \in {write_tile(file, builder[s], level, index, tile)} :
         /\ file' = r.file
         /\ builder' = [builder EXCEPT ![s] = r.builder]
         /\ hist' = IF r.panic THEN hist
                    ELSE [hist EXCEPT ![<<level, index>>] = [op |-> "tile", data |-> tile]]
         /\ last' = [NoOp EXCEPT !.op = "write_tile", !.inst = s, !.level = level,
                                 !.index = index, !.data = tile,
                                 !.result = IF r.panic THEN "panic" ELSE "ok"]
  /\ UNCHANGED <<width, height, bpp, signed, overflow_checks, pyr, wr, rd>>

\* write_nodata_tile(level, index) by instance s
WriteNodataTile(s, level, index) ==
  /\ builder[s].open
  /\ wr[s].pc \in {"idle", "recovered"}
  /\ <<level, index>> \in Slots(builder[s])
  /\ file' = write_nodata_tile(file, builder[s], level, index)
  /\ hist' = [hist EXCEPT ![<<level, index>>] = [op |-> "nodata", data |-> <<>>]]
  /\ last' = [NoOp EXCEPT !.op = "write_nodata_tile", !.inst = s, !.level = level,
                          !.index = index, !.result = "ok"]
  /\ UNCHANGED <<width, height, bpp, signed, overflow_checks, pyr, builder, wr, rd>>

\* valid_mask(level) by instance s
ValidMask(s, level) ==
  /\ builder[s].open
  /\ level \in 0..(Levels(builder[s]) - 1)
  /\ last' = [NoOp EXCEPT !.op = "valid_mask", !.inst = s, !.level = level,
                          !.result = valid_mask(file, builder[s], level)]
  /\ UNCHANGED <<width, height, bpp, signed, overflow_checks, pyr, file, builder,
                 wr, rd, hist>>

Next ==
  \/ New(1)
  \/ Drop(1)
  \/ \E l \in 0..1, i \in 0..3, t \in Payloads : WriteTile(1, l, i, t)
  \/ \E l \in 0..1, i \in 0..3 : WriteNodataTile(1, l, i)
  \/ \E l \in 0..1 : ValidMask(1, l)

Spec == InitStore /\ [][Next]_vars

\* read_tile(level, index) by instance s, run to completion; the index is any
\* u32, in range or up to MaxBeyond past the level's tile count
ReadTile(s, level, index) ==
  /\ builder[s].open
  /\ wr[s].pc \in {"idle", "recovered"}
  /\ level \in 0..(Levels(builder[s]) - 1)
  /\ index \in 0..(TileCount(builder[s], level) + MaxBeyond)
  /\ last' = [NoOp EXCEPT !.op = "read_tile", !.inst = s, !.level = level,
                          !.index = index,
                          !.result = read_tile(file, builder[s], level, index)]
  /\ UNCHANGED <<width, height, bpp, signed, overflow_checks, pyr, file, builder,
                 wr, rd, hist>>

\* the file after the writes of CogBuilder::new have reached position c only:
\* bytes below c as in the completed file `full`, the rest as they were in f
CutFile(f, full, c) ==
  [len |-> Max(f.len, c),
   nz |-> [p \in {q \in DOMAIN full.nz : q < c} \cup {q \in DOMAIN f.nz : q >= c}
             |-> IF p < c THEN full.nz[p] ELSE f.nz[p]]]

\* positions at which the writes of CogBuilder::new may be cut short: inside
\* the first directory, at the end of the directories, inside the tables
CutPoints(b) ==
  {16, 100, 1024 * Levels(b), 1024 * Levels(b) + 8, RegionSize(b) - 1}

\* the process stops inside CogBuilder::new while it writes the header, the
\* directories and the initial tables of a container not yet complete
CrashInNew(s) ==
  /\ ~builder[s].open
  /\ wr[s].pc \in {"idle", "recovered"}
  /\ \E r \in {New_(file, width, height, bpp, signed, overflow_checks)} :
         /\ ~r.panic
         /\ file.len < RegionSize(r.builder)
         /\ \E c \in CutPoints(r.builder) :
              /\ c > file.len
              /\ file' = CutFile(file, r.file, c)
  /\ wr' = [wr EXCEPT ![s] = [WrIdle EXCEPT !.pc = "crashed", !.at = "new"]]
  /\ last' = [NoOp EXCEPT !.op = "crash", !.inst = s]
  /\ UNCHANGED <<width, height, bpp, signed, overflow_checks, pyr, builder, rd, hist>>

\* one instance created (possibly after interrupted attempts), written,
\* dropped and reopened, every call run to completion
NextOpen ==
  \/ New(1)
  \/ CrashInNew(1)
  \/ Drop(1)
  \/ \E l \in 0..1, i \in 0..3, t \in Payloads : WriteTile(1, l, i, t)
  \/ \E l \in 0..1, i \in 0..3 : WriteNodataTile(1, l, i)

SpecOpen == InitStore /\ [][NextOpen]_vars

\* one instance writing and reading back, every call run to completion
NextRead ==
  \/ New(1)
  \/ \E l \in 0..1, i \in 0..3, t \in Payloads : WriteTile(1, l, i, t)
  \/ \E l \in 0..1, i \in 0..3 : WriteNodataTile(1, l, i)
  \/ \E l \in 0..1, i \in 0..(3 + MaxBeyond) : ReadTile(1, l, i)

SpecRead == InitStore /\ [][NextRead]_vars

----------------------------------------------------------------------------
(* write_tile and read_tile step by step, crashes, and the specifications
   that interleave them *)

InFlight(s) == wr[s].pc \in {"checked", "appended", "sized"}

\* write_tile: seek to the end and compare it with the tracked file_size
WBegin(s, level, index, tile) ==
  /\ builder[s].open
  /\ wr[s].pc \in {"idle", "recovered"}
  /\ <<level, index>> \in Slots(builder[s])
  /\ file.len + Len(tile) <= RegionSize(builder[s]) + MaxAppended
  /\ wr' = [wr EXCEPT ![s] =
              [pc |-> IF builder[s].file_size = file.len THEN "checked" ELSE "panicked",
               at |-> "idle", level |-> level, index |-> index, tile |-> tile,
               file_end |-> file.len,
               before |-> read_tile(file, builder[s], level, index)]]
  /\ UNCHANGED <<width, height, bpp, signed, overflow_checks, pyr, file, builder,
                 rd, last, hist>>

\* write_tile: write_all(tile) with the cursor where the seek left it
WAppend(s) ==
  /\ wr[s].pc = "checked"
  /\ file' = AppendPayload(file, wr[s].file_end, wr[s].tile)
  /\ wr' = [wr EXCEPT ![s].pc = "appended"]
  /\ UNCHANGED <<width, height, bpp, signed, overflow_checks, pyr, builder,
                 rd, last, hist>>

\* write_tile: write the size field, flush
WSize(s) ==
  /\ wr[s].pc = "appended"
  /\ file' = WriteSizeField(file, builder[s], wr[s].level, wr[s].index, wr[s].tile)
  /\ wr' = [wr EXCEPT ![s].pc = "sized"]
  /\ UNCHANGED <<width, height, bpp, signed, overflow_checks, pyr, builder,
                 rd, last, hist>>

\* write_tile: write the offset field, flush, advance file_size, return
WOffset(s) ==
  /\ wr[s].pc = "sized"
  /\ file' = WriteOffsetField(file, builder[s], wr[s].level, wr[s].index, wr[s].file_end)
  /\ builder' = [builder EXCEPT ![s].file_size = @ + Len(wr[s].tile)]
  /\ wr' = [wr EXCEPT ![s] = WrIdle]
  /\ hist' = [hist EXCEPT ![<<wr[s].level, wr[s].index>>] =
                [op |-> "tile", data |-> wr[s].tile]]
  /\ last' = [NoOp EXCEPT !.op = "write_tile", !.inst = s, !.level = wr[s].level,
                          !.index = wr[s].index, !.data = wr[s].tile, !.result = "ok"]
  /\ rd' = IF rd.pc # "idle" /\ rd.level = wr[s].level /\ rd.index = wr[s].index
             THEN [rd EXCEPT !.allowed =
                     @ \cup {read_tile(file', builder[s], rd.level, rd.index)}]
             ELSE rd
  /\ UNCHANGED <<width, height, bpp, signed, overflow_checks, pyr>>

\* the process of instance s stops in the middle of its write_tile; what it
\* has written to the file stays
Crash(s) ==
  /\ builder[s].open
  /\ InFlight(s)
  /\ rd.pc = "idle"
  /\ builder' = [builder EXCEPT ![s] = Closed]
  /\ wr' = [wr EXCEPT ![s].at = wr[s].pc, ![s].pc = "crashed"]
  /\ last' = [NoOp EXCEPT !.op = "crash", !.inst = s]
  /\ UNCHANGED <<width, height, bpp, signed, overflow_checks, pyr, file, rd, hist>>

\* write_tile: the write_all or flush the call has come to fails and the `?`
\* returns the error; a failed write_all of the payload may have written any
\* shorter prefix of it; file_size is not touched (lib.rs:329 is not reached)
Fault(s) ==
  /\ builder[s].open
  /\ InFlight(s)
  /\ \/ /\ wr[s].pc = "checked"
        /\ \E k \in 0..(Len(wr[s].tile) - 1) :
             file' = AppendPayload(file, wr[s].file_end, SubSeq(wr[s].tile, 1, k))
     \/ /\ wr[s].pc \in {"appended", "sized"}
        /\ file' = file
  /\ wr' = [wr EXCEPT ![s] = WrIdle]
  /\ last' = [NoOp EXCEPT !.op = "write_tile", !.inst = s, !.level = wr[s].level,
                          !.index = wr[s].index, !.data = wr[s].tile,
                          !.result = "io_error"]
  /\ UNCHANGED <<width, height, bpp, signed, overflow_checks, pyr, builder, rd, hist>>

\* read_tile by a reader thread on instance 1: the index is in range
RBegin(level, index) ==
  /\ builder[1].open
  /\ rd.pc = "idle"
  /\ <<level, index>> \in Slots(builder[1])
  /\ rd' = [pc |-> "start", level |-> level, index |-> index, size |-> 0, offset |-> 0,
            allowed |-> {IF InFlight(1) /\ wr[1].level = level /\ wr[1].index = index
                           THEN wr[1].before
                           ELSE read_tile(file, builder[1], level, index)}]
  /\ UNCHANGED <<width, height, bpp, signed, overflow_checks, pyr, file, builder,
                 wr, last, hist>>

\* read_tile: read the size field
RSize ==
  /\ rd.pc = "start"
  /\ rd' = [rd EXCEPT !.pc = "size_read",
                      !.size = U64At(file, offset_size_locations(
                                             builder[1], rd.level, rd.index).size)]
  /\ UNCHANGED <<width, height, bpp, signed, overflow_checks, pyr, file, builder,
                 wr, last, hist>>

\* read_tile: read the offset field; a size of 0 returns None
ROffset ==
  /\ rd.pc = "size_read"
  /\ IF rd.size = 0
       THEN /\ rd' = [rd EXCEPT !.pc = "idle"]
            /\ last' = [NoOp EXCEPT !.op = "read_tile", !.inst = 1, !.level = rd.level,
                                    !.index = rd.index, !.result = None,
                                    !.allowed = rd.allowed]
       ELSE /\ rd' = [rd EXCEPT !.pc = "offset_read",
                                !.offset = U64At(file, offset_size_locations(
                                                   builder[1], rd.level, rd.index).offset)]
            /\ last' = last
  /\ UNCHANGED <<width, height, bpp, signed, overflow_checks, pyr, file, builder,
                 wr, hist>>

\* read_tile: seek to the offset and read size bytes
RPayload ==
  /\ rd.pc = "offset_read"
  /\ rd' = [rd EXCEPT !.pc = "idle"]
  /\ last' = [NoOp EXCEPT !.op = "read_tile", !.inst = 1, !.level = rd.level,
                          !.index = rd.index,
                          !.result = ReadPayload(file, rd.size, rd.offset),
                          !.allowed = rd.allowed]
  /\ UNCHANGED <<width, height, bpp, signed, overflow_checks, pyr, file, builder,
                 wr, hist>>

WriteSteps(s) ==
  \/ \E l \in 0..1, i \in 0..3, t \in StepPayloads : WBegin(s, l, i, t)
  \/ WAppend(s)
  \/ WSize(s)
  \/ WOffset(s)

\* one instance writing step by step, crashing and being reopened
NextCrash ==
  \/ New(1)
  \/ WriteSteps(1)
  \/ Crash(1)

SpecCrash == InitStore /\ [][NextCrash]_vars

\* one instance writing step by step, with calls that fail and are re-issued
NextFault ==
  \/ New(1)
  \/ WriteSteps(1)
  \/ Fault(1)

SpecFault == InitStore /\ [][NextFault]_vars

\* one writer and one reader thread on the same instance
NextRW ==
  \/ New(1)
  \/ WriteSteps(1)
  \/ \E l \in 0..1, i \in 0..3 : RBegin(l, i)
  \/ RSize
  \/ ROffset
  \/ RPayload

SpecRW == InitStore /\ [][NextRW]_vars

\* two instances on the same path, each appending with its own handle
NextWW ==
  \/ \E s \in Instances : New(s)
  \/ \E s \in Instances : WriteSteps(s)

SpecWW == InitStore /\ [][NextWW]_vars

----------------------------------------------------------------------------
(* The pyramid loop on its own *)

InitPyr ==
  /\ width \in PyrDims
  /\ height \in PyrDims
  /\ overflow_checks \in BOOLEAN
  /\ pyr = PyrStart(width, height)
  /\ bpp = <<8>>
  /\ signed = FALSE
  /\ file = EmptyFile
  /\ builder = [s \in Instances |-> Closed]
  /\ wr = [s \in Instances |-> WrIdle]
  /\ rd = RdIdle
  /\ last = NoOp
  /\ hist = <<>>

\* one iteration of the loop of CogBuilder::new
PyramidIter ==
  /\ pyr.pc = "loop"
  /\ pyr' = LoopBody(pyr, overflow_checks)
  /\ UNCHANGED <<width, height, bpp, signed, overflow_checks, file, builder,
                 wr, rd, last, hist>>

NextPyr == PyramidIter

SpecPyr == InitPyr /\ [][NextPyr]_vars

----------------------------------------------------------------------------
(* The constructor over many geometries: creation, drop and reopen *)

InitEnc ==
  /\ width \in EncDims
  /\ height \in EncDims
  /\ \E a \in EncSamples : bpp = a.bpp /\ signed = a.signed
  /\ overflow_checks \in BOOLEAN
  /\ pyr = PyrIdle
  /\ file = EmptyFile
  /\ builder = [s \in Instances |-> Closed]
  /\ wr = [s \in Instances |-> WrIdle]
  /\ rd = RdIdle
  /\ last = NoOp
  /\ hist = <<>>

NextEnc ==
  \/ New(1)
  \/ Drop(1)

SpecEnc == InitEnc /\ [][NextEnc]_vars

----------------------------------------------------------------------------
(* Properties of the pyramid loop *)

\* ceil(d / 2) and ceil(d / TILE_SIZE) over the integers, never wrapping
CeilHalf(d) == AddU32(DivU32(d, 2), d[2] % 2).value

CeilTiles(d) ==
  U32(d[1] * (LIMB \div TILE_SIZE) + (d[2] \div TILE_SIZE)
      + (IF d[2] % TILE_SIZE # 0 THEN 1 ELSE 0))

PyrLevels == 1..Len(pyr.widths)

PyrSteps == 1..(Len(pyr.widths) - 1)

\* C9: for every (width, height) on which the loop completes, level 0 is
\* (width, height), every next level is the ceiling-half of the one before,
\* the last level is the first one that fits in a tile, each tile count is
\* ceil(w / 1024) * ceil(h / 1024), and 4096 x 4096 gives 16, 4 and 1 tiles.
C9_Levels ==
  pyr.pc = "done" =>
    /\ pyr.widths[1] = width /\ pyr.heights[1] = height
    /\ \A k \in PyrSteps :
         /\ pyr.widths[k + 1] = CeilHalf(pyr.widths[k])
         /\ pyr.heights[k + 1] = CeilHalf(pyr.heights[k])
         /\ ~(LeU32(pyr.widths[k], TILE_SIZE) /\ LeU32(pyr.heights[k], TILE_SIZE))
    /\ LeU32(pyr.widths[Len(pyr.widths)], TILE_SIZE)
    /\ LeU32(pyr.heights[Len(pyr.heights)], TILE_SIZE)
    /\ Len(pyr.tile_counts) = Len(pyr.widths)
    /\ \A k \in PyrLevels :
         CheckedMul(CeilTiles(pyr.widths[k]), CeilTiles(pyr.heights[k]))
           = [none |-> FALSE, value |-> pyr.tile_counts[k]]
    /\ (width = U32(4096) /\ height = U32(4096)
          => pyr.tile_counts = <<U32(16), U32(4), U32(1)>>)

\* C10 as stated: both dimensions strictly decrease at every step, and the
\* loop ends with both dimensions of the last level within the tile edge.
C10_StrictDecrease ==
  /\ \A k \in PyrSteps :
       /\ LtU32(pyr.widths[k + 1], pyr.widths[k])
       /\ LtU32(pyr.heights[k + 1], pyr.heights[k])
  /\ (pyr.pc = "done" =>
        /\ LeU32(pyr.widths[Len(pyr.widths)], TILE_SIZE)
        /\ LeU32(pyr.heights[Len(pyr.heights)], TILE_SIZE))

\* C10 amended: at every step each dimension does not grow and strictly
\* decreases when it is above 1 (a dimension of 0 or 1 stays as it is), at
\* least one dimension strictly decreases, and the loop always ends, after at
\* most 23 iterations: by a panic, or with both dimensions of the last level
\* within the tile edge.
C10_Decrease ==
  /\ \A k \in PyrSteps :
       /\ ~LtU32(pyr.widths[k], pyr.widths[k + 1])
       /\ ~LtU32(pyr.heights[k], pyr.heights[k + 1])
       /\ (LtU32(<<0, 1>>, pyr.widths[k]) => LtU32(pyr.widths[k + 1], pyr.widths[k]))
       /\ (LtU32(<<0, 1>>, pyr.heights[k]) => LtU32(pyr.heights[k + 1], pyr.heights[k]))
       /\ (LtU32(pyr.widths[k + 1], pyr.widths[k])
             \/ LtU32(pyr.heights[k + 1], pyr.heights[k]))
  /\ Len(pyr.widths) <= 23
  /\ (pyr.pc = "loop" => Len(pyr.widths) < 23)
  /\ pyr.pc \in {"loop", "done", "panic"}
  /\ (pyr.pc = "done" =>
        /\ LeU32(pyr.widths[Len(pyr.widths)], TILE_SIZE)
        /\ LeU32(pyr.heights[Len(pyr.heights)], TILE_SIZE))

\* a completed pyramid of three levels whose width stays at 1
C10_Witness ==
  /\ pyr.pc = "done"
  /\ Len(pyr.widths) = 3
  /\ pyr.widths = <<U32(1), U32(1), U32(1)>>
  /\ LtU32(pyr.heights[3], pyr.heights[2])

\* C18: pyramid derivation fails only by the detected overflow of the
\* tile-count multiplication: for every width and height in 0..2^32-1 none of
\* width + TILE_SIZE - 1, height + TILE_SIZE - 1, (width + 1) / 2 and
\* (height + 1) / 2 exceeds 2^32-1, so no level's dimensions or tile count
\* comes from a wrapped value and a panic is always that of checked_mul.
C18_NoWrap ==
  /\ pyr.pc = "loop" =>
        /\ ~TilesAlong(pyr.overview_width).overflow
        /\ ~TilesAlong(pyr.overview_height).overflow
        /\ ~(LeU32(pyr.overview_width, TILE_SIZE) /\ LeU32(pyr.overview_height, TILE_SIZE))
             => /\ ~HalveUp(pyr.overview_width).overflow
                /\ ~HalveUp(pyr.overview_height).overflow
  /\ pyr.pc = "panic" =>
        CheckedMul(CeilTiles(pyr.widths[Len(pyr.widths)]),
                   CeilTiles(pyr.heights[Len(pyr.heights)])).none
  /\ \A k \in 1..Len(pyr.tile_counts) :
        CheckedMul(CeilTiles(pyr.widths[k]), CeilTiles(pyr.heights[k]))
          = [none |-> FALSE, value |-> pyr.tile_counts[k]]

----------------------------------------------------------------------------
(* Properties of the store under completed operations *)

B1 == builder[1]

OffsetField(sl) == U64At(file, offset_size_locations(B1, sl[1], sl[2]).offset)

SizeField(sl) == U64At(file, offset_size_locations(B1, sl[1], sl[2]).size)

\* C1: once write_tile(level, i, data) has returned successfully,
\* valid_mask(level)[i] is true and read_tile(level, i) returns Some(data),
\* for every byte string data.
C1_RoundTrip ==
  (last.op = "write_tile" /\ last.result = "ok") =>
    /\ valid_mask(file, B1, last.level).mask[last.index + 1]
    /\ read_tile(file, B1, last.level, last.index) = Some(last.data)

\* C2: after write_nodata_tile(level, i) returns, whatever the slot held
\* before, valid_mask(level)[i] is true and read_tile(level, i) is absent.
C2_Nodata ==
  last.op = "write_nodata_tile" =>
    /\ valid_mask(file, B1, last.level).mask[last.index + 1]
    /\ read_tile(file, B1, last.level, last.index) = None

\* the bytes of f from position from on
Tail_(f, from) == [p \in {q \in DOMAIN f.nz : q >= from} |-> f.nz[p]]

\* C3: reopening with the same parameters preserves every slot: valid_mask
\* and read_tile return after the reopen what they returned before it, and
\* no byte beyond the header and directory region is changed.
C3_ReopenPreserves ==
  [][(last'.op = "new" /\ last'.result = "reopened") =>
       /\ \A sl \in Slots(builder'[1]) :
            read_tile(file', builder'[1], sl[1], sl[2])
              = read_tile(file, builder'[1], sl[1], sl[2])
       /\ \A l \in 0..(Levels(builder'[1]) - 1) :
            valid_mask(file', builder'[1], l) = valid_mask(file, builder'[1], l)
       /\ file'.len = file.len
       /\ Tail_(file', 1024 * Levels(builder'[1]))
            = Tail_(file, 1024 * Levels(builder'[1]))
       /\ builder'[1].file_size = file.len]_vars

\* a reopened container whose single-tile level holds a payload and whose
\* first level holds a nodata tile
C3_Witness ==
  /\ last.op = "new" /\ last.result = "reopened"
  /\ Levels(B1) = 2
  /\ hist[<<1, 0>>].op = "tile" /\ Len(hist[<<1, 0>>].data) = 2
  /\ read_tile(file, B1, 1, 0) = Some(hist[<<1, 0>>].data)
  /\ hist[<<0, 1>>].op = "nodata"
  /\ read_tile(file, B1, 0, 1) = None

\* C5: a container created on an empty path has every slot Unwritten:
\* offset 1 and size 0 in the table or inline, valid_mask all false and
\* read_tile absent.
C5_FreshUnwritten ==
  (last.op = "new" /\ last.fresh) =>
    /\ \A sl \in Slots(B1) :
         /\ OffsetField(sl) = 1
         /\ SizeField(sl) = 0
         /\ read_tile(file, B1, sl[1], sl[2]) = None
    /\ \A l \in 0..(Levels(B1) - 1) :
         valid_mask(file, B1, l) = [err |-> FALSE, mask |-> [i \in 1..TileCount(B1, l) |-> FALSE]]
    /\ file.len = RegionSize(B1)

\* a fresh container with a table level and a single-tile level
C5_Witness ==
  /\ last.op = "new" /\ last.fresh
  /\ Levels(B1) = 2
  /\ TileCount(B1, 0) = 2
  /\ TileCount(B1, 1) = 1

\* what valid_mask returns in the current state, checked against the file and
\* against the operations completed on each slot
C8_Mask ==
  B1.open =>
    \A l \in 0..(Levels(B1) - 1) :
      LET r == valid_mask(file, B1, l)
      IN  /\ ~r.err
          /\ Len(r.mask) = TileCount(B1, l)
          /\ \A i \in 0..(TileCount(B1, l) - 1) :
               /\ r.mask[i + 1] = (OffsetField(<<l, i>>) # 1)
               /\ r.mask[i + 1] = (hist[<<l, i>>].op \in {"tile", "nodata"})
          /\ (last.op = "valid_mask" /\ last.level = l => last.result = r)

\* a valid_mask call changes nothing, and a second call returns the same
C8_NoChange ==
  last'.op = "valid_mask" =>
    /\ file' = file /\ builder' = builder /\ hist' = hist
    /\ (last.op = "valid_mask" /\ last.level = last'.level
          => last'.result = last.result)

C11_Absent ==
  B1.open =>
    \A l \in 0..(Levels(B1) - 1) :
      \A i \in TileCount(B1, l)..(TileCount(B1, l) + MaxBeyond) :
        /\ read_tile(file, B1, l, i) = None
        /\ read_tile(EmptyFile, B1, l, i) = None
        /\ (last.op = "read_tile" /\ last.level = l /\ last.index = i
              => last.result = None)

\* a read_tile call changes neither the file nor the instance
C11_NoChange ==
  last'.op = "read_tile" => file' = file /\ builder' = builder /\ hist' = hist

\* C11: for every level and every index >= the level's tile count, read_tile
\* returns Ok(None) in every reachable state, with no fault, whatever the file
\* holds (it is the same on a file where every read fails), and the call
\* changes nothing.
C11_OutOfRange == [](C11_Absent) /\ [][C11_NoChange]_vars

\* read_tile(0, tile_count) has returned absent on a level whose slots hold a
\* payload and a nodata tile
C11_Witness ==
  /\ last.op = "read_tile"
  /\ last.level = 0
  /\ TileCount(B1, 0) = 2
  /\ last.index = TileCount(B1, 0)
  /\ last.result = None
  /\ hist[<<0, 0>>].op = "tile" /\ hist[<<0, 0>>].data # <<>>
  /\ hist[<<0, 1>>].op = "nodata"

\* C12: after any sequence of completed write_tile and write_nodata_tile
\* calls, the (offset, size) pair of every slot is Unwritten (1, 0),
\* Explicitly-empty (0, 0) or Written (offset > 1024 * level_count, size > 0).
C12_TriState ==
  B1.open =>
    \A sl \in Slots(B1) :
      \/ OffsetField(sl) = 1 /\ SizeField(sl) = 0
      \/ OffsetField(sl) = 0 /\ SizeField(sl) = 0
      \/ OffsetField(sl) > 1024 * Levels(B1) /\ SizeField(sl) > 0

\* the tracked file_size is the length of the file
C13_Tracked == B1.open => B1.file_size = file.len

\* write_tile passes its cursor assertion, places the payload at the old end
\* of the file and advances file_size by its length; write_nodata_tile leaves
\* both lengths alone
C13_Append ==
  /\ last'.op = "write_tile" =>
        /\ last'.result = "ok"
        /\ file'.len = file.len + Len(last'.data)
        /\ ReadExact(file', file.len, Len(last'.data))
             = [ok |-> TRUE, bytes |-> last'.data]
        /\ builder'[1].file_size = builder[1].file_size + Len(last'.data)
  /\ last'.op = "write_nodata_tile" =>
        file'.len = file.len /\ builder'[1].file_size = builder[1].file_size

\* C13: for a single store, after CogBuilder::new returns (on an empty, a
\* partially initialised or a populated file) and after every completed
\* write_tile or write_nodata_tile, file_size equals the length of the file;
\* each write_tile places its payload at the old end of file and advances
\* file_size by the payload length, so no cursor assertion ever fails.
C13_Cursor == [](C13_Tracked) /\ [][C13_Append]_vars

\* a two-byte payload appended to a container whose creation was interrupted
\* and then completed by a second CogBuilder::new
C13_Witness ==
  /\ wr[1].pc = "recovered" /\ wr[1].at = "new"
  /\ last.op = "write_tile" /\ last.result = "ok" /\ Len(last.data) = 2
  /\ Levels(B1) = 2
  /\ file.len = RegionSize(B1) + 2
  /\ B1.file_size = file.len

\* the image has positive width and height
PositiveImage == width # <<0, 0>> /\ height # <<0, 0>>

\* the end of file, where the next payload goes, is past the directories
C15_PayloadRegion ==
  (B1.open /\ PositiveImage) =>
    file.len > 1024 * Levels(B1) /\ file.len \notin {0, 1}

\* the offset write_tile stores is the file length at the start of the call
C15_StoredOffset ==
  (last'.op = "write_tile" /\ last'.result = "ok" /\ PositiveImage) =>
    /\ U64At(file', offset_size_locations(B1, last'.level, last'.index).offset)
         = file.len
    /\ file.len > 1024 * Levels(B1)
    /\ file.len \notin {0, 1}

\* C15: the offset 1 is never recorded as a payload offset: every offset that
\* write_tile stores equals the file length at the start of the call, which
\* in every reachable state, after creation or reopen of an image of positive
\* width and height, is greater than 1024 * level_count, hence neither 0
\* nor 1.
C15_SentinelReserved == [](C15_PayloadRegion) /\ [][C15_StoredOffset]_vars

\* a completed write_tile or write_nodata_tile leaves every other slot's
\* fields, read_tile and valid_mask entry as they were, and every byte of the
\* payloads appended before it
C19_OthersUntouched ==
  ((last'.op = "write_tile" /\ last'.result = "ok") \/ last'.op = "write_nodata_tile") =>
    /\ \A sl \in Slots(B1) \ {<<last'.level, last'.index>>} :
         LET loc == offset_size_locations(B1, sl[1], sl[2])
         IN  /\ U64At(file', loc.offset) = U64At(file, loc.offset)
             /\ U64At(file', loc.size) = U64At(file, loc.size)
             /\ read_tile(file', B1, sl[1], sl[2]) = read_tile(file, B1, sl[1], sl[2])
             /\ valid_mask(file', B1, sl[1]).mask[sl[2] + 1]
                  = valid_mask(file, B1, sl[1]).mask[sl[2] + 1]
    /\ \A p \in RegionSize(B1)..(file.len - 1) : ByteAt(file', p) = ByteAt(file, p)

\* read_tile returns the payload of the most recent write_tile to the slot
C19_LastPayload ==
  B1.open =>
    \A sl \in Slots(B1) :
      hist[sl].op = "tile" => read_tile(file, B1, sl[1], sl[2]) = Some(hist[sl].data)

\* C19: write_tile and write_nodata_tile on an in-range slot change the
\* offset/size fields of that slot only: valid_mask and read_tile of every
\* other slot return the same after the call as before, and no byte of an
\* appended payload is modified; consequently read_tile(l, j) returns the
\* payload of the most recent write_tile to (l, j).
C19_Frame == [](C19_LastPayload) /\ [][C19_OthersUntouched]_vars

----------------------------------------------------------------------------
(* Properties of the layout: directory records against the table *)

\* where the directory record of a level starts in the file
IfdStart(level) == IF level = 0 THEN 16 ELSE 1024 * level

\* the 20-byte entry number n of a level's record: tag id, count and value
\* as they stand in the file, and the position of the value field
TagEntry(level, n) ==
  LET at == IfdStart(level) + 8 + 20 * n
  IN  [id |-> FromLeBytes(ReadExact(file, at, 2).bytes),
       count |-> U64At(file, at + 4),
       value |-> U64At(file, at + 12),
       value_at |-> at + 12]

\* tile counts of the levels before level l, summed
TilesBefore(l) == SeqSum([k \in 1..l |-> Val(B1.tile_counts[k])])

\* C16: encoder and table agree for every level of every pyramid: entries 9
\* and 10 of the 12 of each record are the 0x144 and 0x145 tags; for a level
\* of more than one tile their values are offset_size_locations(level, 0),
\* which is 1024 * level_count + 16 * (tiles of earlier levels) and that plus
\* 8 * tile_count; for a level of one tile offset_size_locations(level, 0) are
\* the positions of the value fields of the two tags.
C16_EncoderTable ==
  B1.open =>
    \A l \in 0..(Levels(B1) - 1) :
      LET loc == offset_size_locations(B1, l, 0)
          offsets == TagEntry(l, 9)
          lengths == TagEntry(l, 10)
      IN  /\ U64At(file, IfdStart(l)) = 12
          /\ offsets.id = 324 /\ lengths.id = 325
          /\ offsets.count = TileCount(B1, l) /\ lengths.count = TileCount(B1, l)
          /\ TileCount(B1, l) > 1 =>
                /\ ~loc.panic
                /\ loc.offset = 1024 * Levels(B1) + 16 * TilesBefore(l)
                /\ loc.size = loc.offset + 8 * TileCount(B1, l)
                /\ offsets.value = loc.offset
                /\ lengths.value = loc.size
          /\ TileCount(B1, l) = 1 =>
                /\ ~loc.panic
                /\ loc.offset = offsets.value_at
                /\ loc.size = lengths.value_at
                /\ offsets.value = OffsetField(<<l, 0>>)
                /\ lengths.value = SizeField(<<l, 0>>)

\* a container of 4096 x 4096 pixels has been created: two levels with
\* tables (16 and 4 tiles) and the single-tile level
C16_Witness ==
  /\ last.op = "new"
  /\ B1.open
  /\ B1.tile_counts = <<U32(16), U32(4), U32(1)>>
  /\ TagEntry(0, 9).value = 3072
  /\ TagEntry(1, 9).value = 3072 + 256
  /\ TagEntry(2, 9).value = 1

\* the positions of the 8-byte cells of the in-range slots
CellStarts ==
  {offset_size_locations(B1, sl[1], sl[2]).offset : sl \in Slots(B1)}
  \cup {offset_size_locations(B1, sl[1], sl[2]).size : sl \in Slots(B1)}

\* C20: for every pyramid of positive width and height the offset cells and
\* size cells of the in-range slots are pairwise disjoint, all end within
\* the region of 1024 * level_count + 16 * total_tiles bytes, and the only
\* cells inside the directory region are the inline fields of the single-tile
\* level, which is the last level: every earlier level has more than one tile.
C20_Cells ==
  (B1.open /\ PositiveImage) =>
    /\ Cardinality(CellStarts) = 2 * Cardinality(Slots(B1))
    /\ \A a \in CellStarts : \A c \in CellStarts : a < c => a + 8 <= c
    /\ \A a \in CellStarts : a + 8 <= RegionSize(B1)
    /\ \A sl \in Slots(B1) :
         LET loc == offset_size_locations(B1, sl[1], sl[2])
         IN  /\ ~loc.panic
             /\ (loc.offset < 1024 * Levels(B1) \/ loc.size < 1024 * Levels(B1))
                  => /\ TileCount(B1, sl[1]) = 1
                     /\ sl[1] = Levels(B1) - 1
                     /\ loc.offset = IfdStart(sl[1]) + 8 + 20 * 9 + 12
                     /\ loc.size = IfdStart(sl[1]) + 8 + 20 * 10 + 12
    /\ TileCount(B1, Levels(B1) - 1) = 1
    /\ \A l \in 0..(Levels(B1) - 2) : TileCount(B1, l) > 1

----------------------------------------------------------------------------
(* Properties of interrupted and concurrent calls *)

\* the byte ranges [offset, offset + size) the slots of instance 1 refer to
Referenced(sl) == {p \in OffsetField(sl)..(OffsetField(sl) + SizeField(sl) - 1) : TRUE}

\* C4: a write_tile on an Unwritten slot interrupted after the size field and
\* before the offset field was written leaves, after reopening, a slot that
\* is treated as never written: offset 1, valid_mask false, read_tile absent,
\* and the payload bytes it appended referenced by no slot.
C4_CrashRecovery ==
  (wr[1].pc = "recovered" /\ wr[1].at = "sized"
     /\ hist[<<wr[1].level, wr[1].index>>].op = "none") =>
    /\ OffsetField(<<wr[1].level, wr[1].index>>) = 1
    /\ ~valid_mask(file, B1, wr[1].level).mask[wr[1].index + 1]
    /\ read_tile(file, B1, wr[1].level, wr[1].index) = None
    /\ \A sl \in Slots(B1) :
         OffsetField(sl) # 1 =>
           Referenced(sl) \cap (wr[1].file_end..(wr[1].file_end + Len(wr[1].tile) - 1)) = {}

\* the slot of the write_tile in flight on instance 1
WrSlot == <<wr[1].level, wr[1].index>>

\* the payload of the call in flight is in the file where the call put it
PayloadPlaced ==
  ReadExact(file, wr[1].file_end, Len(wr[1].tile)) = [ok |-> TRUE, bytes |-> wr[1].tile]

\* while a write_tile is in flight on a slot no write has completed on, the
\* slot has a non-sentinel offset only if payload and size are written
C14_NoEarlyOffset ==
  (InFlight(1) /\ hist[WrSlot].op = "none" /\ OffsetField(WrSlot) # 1) =>
    PayloadPlaced /\ SizeField(WrSlot) = Len(wr[1].tile)

\* the three updates in their order: the append leaves both fields alone and
\* extends the file by the payload; the size write leaves offset, payload and
\* length alone; the offset write comes last, on a complete payload and size
C14_Steps ==
  /\ (wr[1].pc = "checked" /\ wr'[1].pc = "appended") =>
        /\ file'.len = file.len + Len(wr[1].tile)
        /\ PayloadPlaced'
        /\ OffsetField(WrSlot)' = OffsetField(WrSlot)
        /\ SizeField(WrSlot)' = SizeField(WrSlot)
  /\ (wr[1].pc = "appended" /\ wr'[1].pc = "sized") =>
        /\ PayloadPlaced /\ PayloadPlaced'
        /\ file'.len = file.len
        /\ SizeField(WrSlot)' = Len(wr[1].tile)
        /\ OffsetField(WrSlot)' = OffsetField(WrSlot)
  /\ (wr[1].pc = "sized" /\ wr'[1].pc = "idle") =>
        /\ PayloadPlaced
        /\ SizeField(WrSlot) = Len(wr[1].tile)
        /\ file'.len = file.len
        /\ U64At(file', offset_size_locations(B1, wr[1].level, wr[1].index).offset)
             = wr[1].file_end
        /\ U64At(file', offset_size_locations(B1, wr[1].level, wr[1].index).size)
             = Len(wr[1].tile)
        /\ ReadExact(file', wr[1].file_end, Len(wr[1].tile)).bytes = wr[1].tile

\* C14: write_tile appends the payload, then writes the size field, then the
\* offset field, which is the last thing modified: in no intermediate state
\* does a slot that was Unwritten before the call carry a non-sentinel offset
\* while its payload or its size field is not completely written.
C14_WriteOrder == [](C14_NoEarlyOffset) /\ [][C14_Steps]_vars

\* a write_tile on a never-written slot of the table level has appended its
\* payload and written the size field; the offset is still the sentinel
C14_Witness ==
  /\ wr[1].pc = "sized"
  /\ Levels(B1) = 2 /\ wr[1].level = 0
  /\ hist[WrSlot].op = "none"
  /\ Len(wr[1].tile) > 1
  /\ PayloadPlaced
  /\ SizeField(WrSlot) = Len(wr[1].tile)
  /\ OffsetField(WrSlot) = 1

\* C17: after a write_tile that failed with an I/O fault at any of its steps
\* the tracked file_size still equals the length of the file, so the call
\* re-issued for the same slot passes the cursor assertion.
C17_FaultRetry ==
  /\ (last.op = "write_tile" /\ last.result = "io_error" /\ wr[1].pc = "idle")
        => B1.file_size = file.len
  /\ wr[1].pc # "panicked"

\* C6: a read_tile that runs while a write_tile is in flight on the same slot
\* returns what the slot held before the write or what it holds after it.
C6_ReadAtomic ==
  last.op = "read_tile" => last.result \in last.allowed

\* instance s has placed its payload in the file
Placed(s) == wr[s].pc \in {"appended", "sized"} /\ wr[s].tile # <<>>

\* C7: two appends never both place their payloads at the same file position:
\* the cursor check fails in at least one of them.
C7_NoSilentRace ==
  ~(Placed(1) /\ Placed(2) /\ wr[1].file_end = wr[2].file_end)

====
